---------------------------- MODULE Spec2Model ----------------------------
(***************************************************************************)
(* A model of redist.py, the release-to-distribution pipeline that        *)
(* repackages the upstream buf executable into platform wheels.           *)
(*                                                                         *)
(* Strings are TLA+ strings and are taken apart character by character    *)
(* (Len, SubSeq, \o), so that removeprefix, removesuffix, the asset       *)
(* filter and the globs are computed as the code computes them.           *)
(* The three directory trees (.cache/buf, build/buf, dist) are functions  *)
(* from a path, a sequence of components below the tree's root, to a      *)
(* node.  A command is one action: the whole handler, with its inputs     *)
(* (flags, upstream answers, failures, directory iteration order) drawn   *)
(* from small sets.                                                        *)
(***************************************************************************)
EXTENDS Integers, Sequences, FiniteSets, TLC

VARIABLES
    env,        \* os.environ restricted to GITHUB_TOKEN and GH_TOKEN
    cacheT,     \* the tree below EXE_CACHE_DIR
    buildT,     \* the tree below EXE_BUILD_DIR
    distT,      \* the tree below DIST_DIR
    last,       \* what the last command run was given and what it did
    runs,       \* number of command runs so far
    written,    \* every archive assemble has written, with what it was made from
    mp,         \* map_platform: the last two calls
    fr,         \* sync / fetch_releases: the generator's state
    vf,         \* verify: the loop's state
    pb          \* publish: the loop's state and the uploads made

vars == <<env, cacheT, buildT, distT, last, runs, written, mp, fr, vf, pb>>

(***************************************************************************)
(* Bounds of the model.                                                    *)
(***************************************************************************)
\* command runs in one behaviour of the pipeline
MaxRuns == 3

(***************************************************************************)
(* Configuration (redist.py, region config).                               *)
(***************************************************************************)
NoneValue == "<None>"

EXE_NAME == "buf"

PRJ_NAME == EXE_NAME \o "-exe"

ORIGIN == "fleshgrinder/python-" \o PRJ_NAME

ORIGIN_URL == "https://github.com/" \o ORIGIN

UPSTREAM == "bufbuild/buf"

UPSTREAM_URL == "https://github.com/" \o UPSTREAM

WHL_NAME == "buf_exe"

(***************************************************************************)
(* str methods.                                                            *)
(***************************************************************************)
startswith(s, p) == Len(s) >= Len(p) /\ SubSeq(s, 1, Len(p)) = p

endswith(s, p) == Len(s) >= Len(p) /\ SubSeq(s, Len(s) - Len(p) + 1, Len(s)) = p

removeprefix(s, p) == IF startswith(s, p) THEN SubSeq(s, Len(p) + 1, Len(s)) ELSE s

removesuffix(s, p) ==
    IF Len(p) > 0 /\ endswith(s, p) THEN SubSeq(s, 1, Len(s) - Len(p)) ELSE s

HasChar(s, c) == \E i \in 1..Len(s) : SubSeq(s, i, i) = c

\* index of the first occurrence of the character c in s, 0 if there is none
RECURSIVE FindChar(_, _, _)
FindChar(s, c, i) ==
    IF i > Len(s) THEN 0
    ELSE IF SubSeq(s, i, i) = c THEN i
    ELSE FindChar(s, c, i + 1)

\* s.split(c)
RECURSIVE Split(_, _)
Split(s, c) ==
    LET i == FindChar(s, c, 1) IN
    IF i = 0 THEN <<s>>
    ELSE <<SubSeq(s, 1, i - 1)>> \o Split(SubSeq(s, i + 1, Len(s)), c)

(***************************************************************************)
(* map_platform                                                            *)
(***************************************************************************)
PlatformTable ==
    ("Linux-aarch64" :> "manylinux_2_17_aarch64.manylinux2014_aarch64") @@
    ("Linux-x86_64" :> "manylinux_2_5_x86_64.manylinux1_x86_64") @@
    ("Darwin-arm64" :> "macosx_11_0_arm64") @@
    ("Darwin-x86_64" :> "macosx_10_4_x86_64") @@
    ("Windows-arm64" :> "win_arm64") @@
    ("Windows-x86_64" :> "win_amd64")

\* dict.get: the value, or None
DictGet(d, k) == IF k \in DOMAIN d THEN d[k] ELSE NoneValue

\* a slip: the '.exe' suffix is not removed
map_platform_keeps_suffix(s) ==
    DictGet(PlatformTable, removeprefix(s, EXE_NAME \o "-"))

map_platform(s) ==
    DictGet(PlatformTable, removesuffix(removeprefix(s, EXE_NAME \o "-"), ".exe"))

(***************************************************************************)
(* Directory trees (pathlib, shutil).                                      *)
(***************************************************************************)
EmptyTree == [p \in {} |-> 0]

DirNode == [kind |-> "dir", data |-> <<>>]

FileNode(d) == [kind |-> "file", data |-> d]

IsDir(t, p) == p \in DOMAIN t /\ t[p].kind = "dir"

IsFile(t, p) == p \in DOMAIN t /\ t[p].kind = "file"

Prefixes(p) == {SubSeq(p, 1, n) : n \in 0..Len(p)}

\* Path.mkdir(parents=True, exist_ok=True)
Mkdirs(t, p) ==
    [q \in DOMAIN t \cup Prefixes(p) |-> IF q \in DOMAIN t THEN t[q] ELSE DirNode]

\* open(p, "wb") and the writes that follow, shutil.copyfile(_, p)
WriteFile(t, p, d) ==
    [q \in DOMAIN t \cup {p} |-> IF q = p THEN FileNode(d) ELSE t[q]]

\* the entries of directory d
Children(t, d) ==
    {p \in DOMAIN t : Len(p) = Len(d) + 1 /\ SubSeq(p, 1, Len(d)) = d}

\* fnmatch of one path component against a pattern with at most one '*'
GlobMatch(pat, name) ==
    LET i == FindChar(pat, "*", 1) IN
    IF i = 0 THEN pat = name
    ELSE LET pre == SubSeq(pat, 1, i - 1)
             suf == SubSeq(pat, i + 1, Len(pat))
         IN  /\ Len(name) >= Len(pre) + Len(suf)
             /\ startswith(name, pre)
             /\ endswith(name, suf)

\* Path.glob(pat) for a pattern of one component
Glob(t, d, pat) ==
    IF IsDir(t, d) THEN {p \in Children(t, d) : GlobMatch(pat, p[Len(p)])} ELSE {}

\* the orders in which a directory's entries may be iterated
Orders(S) ==
    {o \in [1..Cardinality(S) -> S] : \A i, j \in 1..Cardinality(S) : o[i] = o[j] => i = j}

\* maybe_clean: rmtree when asked and present, then mkdir(parents=True, exist_ok=True)
maybe_clean(clean, t) ==
    Mkdirs(IF clean /\ <<>> \in DOMAIN t THEN EmptyTree ELSE t, <<>>)

(***************************************************************************)
(* gh_token and the module-level SESSION.                                  *)
(***************************************************************************)
Tokens == {NoneValue, "ghp_token"}

Environments == [GITHUB_TOKEN : Tokens, GH_TOKEN : Tokens]

\* os.environ.get("GITHUB_TOKEN", os.environ.get("GH_TOKEN")); None makes fail() exit
gh_token(e) == IF e.GITHUB_TOKEN # NoneValue THEN e.GITHUB_TOKEN ELSE e.GH_TOKEN

\* a slip: no session is set up when the module is loaded
SessionSetupFails_absent(e) == FALSE

\* SESSION.headers["Authorization"] = f"Bearer {gh_token()}" runs when the module is
\* loaded, before click dispatches to any command
SessionSetupFails(e) == gh_token(e) = NoneValue

(***************************************************************************)
(* The upstream repository as the hosting service presents it.            *)
(***************************************************************************)
Releases ==
    { [id |-> 1, tag_name |-> "v1.2.3",
       assets |-> <<"buf-Linux-x86_64", "buf-Linux-x86_64.tar.gz">>],
      [id |-> 2, tag_name |-> "1.2.3",
       assets |-> <<"buf-Linux-x86_64", "buf-Windows-x86_64.exe", "checksums.txt">>] }

\* the tag arguments tried: the default and a published tag
TagArgs == {"latest", "v1.2.3"}

\* The bytes the servers hold behind a URL: the LICENSE text is the same at every
\* tag, and an asset of the same name is the same binary in both releases.
RECURSIVE LastSlash(_, _)
LastSlash(s, i) ==
    IF i = 0 \/ SubSeq(s, i, i) = "/" THEN i ELSE LastSlash(s, i - 1)

Blob(url) == SubSeq(url, LastSlash(url, Len(url)) + 1, Len(url))

\* the full content behind a URL, and what is on disk when the stream broke after
\* some of its chunks were written: a proper prefix of that content
Upstream(url) == [blob |-> Blob(url), full |-> TRUE]

Partial(url) == [blob |-> Blob(url), full |-> FALSE]

HTTP_OK == 200

\* GET /repos/bufbuild/buf/releases/{latest | tags/<tag>}
ApiGet(ref, latest, fault) ==
    IF fault.at = "API" THEN [status |-> 500, json |-> NoneValue]
    ELSE IF ref = "latest" THEN [status |-> HTTP_OK, json |-> latest]
    ELSE IF \E r \in Releases : "tags/" \o r.tag_name = ref
         THEN [status |-> HTTP_OK,
               json |-> CHOOSE r \in Releases : "tags/" \o r.tag_name = ref]
    ELSE [status |-> 404, json |-> NoneValue]

\* re.compile(r"\Abuf-[^.]+(?:\.exe)?\Z").match(name)
asset_filter(name) ==
    /\ startswith(name, "buf-")
    /\ LET rest == SubSeq(name, 5, Len(name))
           stem == removesuffix(rest, ".exe")
       IN  \/ Len(rest) > 0 /\ ~HasChar(rest, ".")
           \/ endswith(rest, ".exe") /\ Len(stem) > 0 /\ ~HasChar(stem, ".")

\* the failures a run may meet: none, a non-success status of one request, or the
\* stream of one file breaking while its chunks are written
NoFault == [at |-> "none", kind |-> "none"]

Faults(names) ==
    {NoFault}
        \cup [at : names \cup {"API"}, kind : {"status"}]
        \cup [at : names, kind : {"io"}]

\* a slip: the existence check is missing, every file is fetched again
download_file_always(t, dst, url, fault) ==
    IF fault.at = dst[Len(dst)] /\ fault.kind = "status"
    THEN [tree |-> t, err |-> "HTTPError", reqs |-> <<url>>]
    ELSE IF fault.at = dst[Len(dst)] /\ fault.kind = "io"
    THEN [tree |-> WriteFile(t, dst, Partial(url)), err |-> "IOError",
          reqs |-> <<url>>]
    ELSE [tree |-> WriteFile(t, dst, Upstream(url)), err |-> "ok", reqs |-> <<url>>]

\* download.download_file: skip an existing file; otherwise request the URL, fail on
\* a non-success status, open the file for writing and write the chunks as they come
download_file(t, dst, url, fault) ==
    IF dst \in DOMAIN t THEN [tree |-> t, err |-> "ok", reqs |-> <<>>]
    ELSE IF fault.at = dst[Len(dst)] /\ fault.kind = "status"
    THEN [tree |-> t, err |-> "HTTPError", reqs |-> <<url>>]
    ELSE IF fault.at = dst[Len(dst)] /\ fault.kind = "io"
    THEN [tree |-> WriteFile(t, dst, Partial(url)), err |-> "IOError",
          reqs |-> <<url>>]
    ELSE [tree |-> WriteFile(t, dst, Upstream(url)), err |-> "ok", reqs |-> <<url>>]

\* the assets that pass the filter, in the release's order, with their URLs
RECURSIVE MatchingAssets(_, _)
MatchingAssets(release, i) ==
    IF i > Len(release.assets) THEN <<>>
    ELSE (IF asset_filter(release.assets[i])
          THEN <<[name |-> release.assets[i],
                  url |-> UPSTREAM_URL \o "/releases/download/" \o release.tag_name
                              \o "/" \o release.assets[i]]>>
          ELSE <<>>) \o MatchingAssets(release, i + 1)

LicenseUrl(tag) == "https://raw.githubusercontent.com/" \o UPSTREAM \o "/" \o tag \o "/LICENSE"

RECURSIVE download_files(_, _, _, _, _)
\* what follows one download_file call whose result is r: an error ends the command
download_rest(r, exe_dir, files, fault, reqs) ==
    IF r.err # "ok"
    THEN [tree |-> r.tree, err |-> r.err, reqs |-> reqs \o r.reqs]
    ELSE download_files(r.tree, exe_dir, Tail(files), fault, reqs \o r.reqs)

download_files(t, exe_dir, files, fault, reqs) ==
    IF files = <<>> THEN [tree |-> t, err |-> "ok", reqs |-> reqs]
    ELSE download_rest(download_file(t, Append(exe_dir, Head(files).name),
                                     Head(files).url, fault),
                       exe_dir, files, fault, reqs)

ApiUrl(ref) == "https://api.github.com/repos/" \o UPSTREAM \o "/releases/" \o ref

\* exe_dir = EXE_CACHE_DIR / tag, where tag is by then the release's tag name for
\* "latest" and "tags/<tag>" for a tag given on the command line
ExeDir(ref, release) ==
    Split(IF ref = "latest" THEN release.tag_name ELSE ref, "/")

\* the files download() asks for, in order: the LICENSE, then the matching assets
FilesOf(ref, release) ==
    <<[name |-> "LICENSE",
       url |-> LicenseUrl(IF ref = "latest" THEN release.tag_name ELSE ref)]>>
        \o MatchingAssets(release, 1)

\* download() once the release request was answered with `release`
download_release(t1, ref, release, exe_dir, fault) ==
    [dir |-> exe_dir, release |-> release,
     r |-> download_files(Mkdirs(t1, exe_dir), exe_dir, FilesOf(ref, release), fault,
                          <<ApiUrl(ref)>>)]

download_answered(t1, ref, resp, fault) ==
    IF resp.status # HTTP_OK
    THEN [dir |-> <<>>, release |-> [id |-> 0, tag_name |-> "", assets |-> <<>>],
          r |-> [tree |-> t1, err |-> "HTTPError", reqs |-> <<ApiUrl(ref)>>]]
    ELSE download_release(t1, ref, resp.json, ExeDir(ref, resp.json), fault)

\* the command download: the directory it fills, the release it was answered with,
\* and in r the tree below EXE_CACHE_DIR it leaves, how it ended, the requests it sent
download(e, t, tag, clean, fault, latest) ==
    IF gh_token(e) = NoneValue
    THEN [dir |-> <<>>, release |-> [id |-> 0, tag_name |-> "", assets |-> <<>>],
          r |-> [tree |-> maybe_clean(clean, t), err |-> "SystemExit", reqs |-> <<>>]]
    ELSE download_answered(maybe_clean(clean, t),
                           IF tag # "latest" THEN "tags/" \o tag ELSE tag,
                           ApiGet(IF tag # "latest" THEN "tags/" \o tag ELSE tag,
                                  latest, fault),
                           fault)

(***************************************************************************)
(* The command build.                                                      *)
(***************************************************************************)
\* one fixed enumeration of a set, for loops whose result no order can change
RECURSIVE SetToSeq(_)
SetToSeq(S) ==
    IF S = {} THEN <<>>
    ELSE LET x == CHOOSE y \in S : TRUE IN <<x>> \o SetToSeq(S \ {x})

\* the inner loop of build: every file src/buf* with a known platform is copied to
\* dst/py2.py3-none-<platform>; n counts the copies
RECURSIVE stage_exes(_, _, _, _, _)
\* a slip: a file without a platform mapping ends the loop over the tag's files
stage_exe_stops(cache, t, exes, dst, n, exe_src, exe_platform) ==
    IF exe_platform = NoneValue THEN [tree |-> t, n |-> n]
    ELSE IF ~IsFile(cache, exe_src) THEN stage_exes(cache, t, Tail(exes), dst, n)
    ELSE stage_exes(cache,
                    WriteFile(t, Append(dst, "py2.py3-none-" \o exe_platform),
                              cache[exe_src].data),
                    Tail(exes), dst, n + 1)

stage_exe(cache, t, exes, dst, n, exe_src, exe_platform) ==
    IF ~IsFile(cache, exe_src) \/ exe_platform = NoneValue
    THEN stage_exes(cache, t, Tail(exes), dst, n)
    ELSE stage_exes(cache,
                    WriteFile(t, Append(dst, "py2.py3-none-" \o exe_platform),
                              cache[exe_src].data),
                    Tail(exes), dst, n + 1)

stage_exes(cache, t, exes, dst, n) ==
    IF exes = <<>> THEN [tree |-> t, n |-> n]
    ELSE stage_exe(cache, t, exes, dst, n, Head(exes),
                   map_platform(Head(exes)[Len(Head(exes))]))

\* the loop of build over the cached directories srcs, in the order given
RECURSIVE build_loop(_, _, _, _)
build_staged(cache, st, srcs) == build_loop(cache, st.tree, Tail(srcs), st.n)

build_dir(cache, t, srcs, n, src, dst) ==
    IF ~IsDir(cache, src) \/ dst \in DOMAIN t
    THEN build_loop(cache, t, Tail(srcs), n)
    ELSE IF ~IsFile(cache, Append(src, "LICENSE"))
    THEN [tree |-> Mkdirs(t, dst), err |-> "FileNotFoundError", work |-> n]
    ELSE build_staged(cache,
                      stage_exes(cache,
                                 WriteFile(Mkdirs(t, dst), Append(dst, "LICENSE"),
                                           cache[Append(src, "LICENSE")].data),
                                 SetToSeq(Glob(cache, src, EXE_NAME \o "*")),
                                 dst, n + 1),
                      srcs)

build_loop(cache, t, srcs, n) ==
    IF srcs = <<>> THEN [tree |-> t, err |-> "ok", work |-> n]
    ELSE build_dir(cache, t, srcs, n, Head(srcs), <<Head(srcs)[Len(Head(srcs))]>>)

\* the command build over the cached directories in the order the glob yields them
build(cache, t, clean, order) == build_loop(cache, maybe_clean(clean, t), order, 0)

(***************************************************************************)
(* Version strings: strftime/gmtime and packaging.version.Version.        *)
(***************************************************************************)
Digits == "0123456789"

IsDigits(s) == Len(s) > 0 /\ \A i \in 1..Len(s) : HasChar(Digits, SubSeq(s, i, i))

\* str(n) for n >= 0, left-padded with zeros to the given width
RECURSIVE NatToStr(_, _)
NatToStr(n, width) ==
    IF n < 10 /\ width <= 1 THEN SubSeq(Digits, n + 1, n + 1)
    ELSE NatToStr(n \div 10, width - 1) \o SubSeq(Digits, (n % 10) + 1, (n % 10) + 1)

\* strftime("%Y%m%d%H%M%S", gmtime(ct)): the civil date of day ct // 86400 counted
\* from 1970-01-01 in the proleptic Gregorian calendar, and the time of day
strftime_gmtime(ct) ==
    LET days == ct \div 86400
        rem == ct % 86400
        z == days + 719468
        era == z \div 146097
        doe == z - era * 146097
        yoe == (doe - doe \div 1460 + doe \div 36524 - doe \div 146096) \div 365
        doy == doe - (365 * yoe + yoe \div 4 - yoe \div 100)
        mq == (5 * doy + 2) \div 153
        d == doy - (153 * mq + 2) \div 5 + 1
        m == IF mq < 10 THEN mq + 3 ELSE mq - 9
        y == yoe + era * 400 + (IF m <= 2 THEN 1 ELSE 0)
    IN  NatToStr(y, 4) \o NatToStr(m, 2) \o NatToStr(d, 2)
            \o NatToStr(rem \div 3600, 2) \o NatToStr((rem % 3600) \div 60, 2)
            \o NatToStr(rem % 60, 2)

\* the commit times `git log -1 --format=%ct` is taken to answer with
CommitTimes == {1700000000}

\* a slip: the commit time is formatted in a local time one hour east of UTC
version_suffix_local(dev, ct) == IF dev THEN ".dev" \o strftime_gmtime(ct + 3600) ELSE ""

\* version_suffix of assemble
version_suffix(dev, ct) == IF dev THEN ".dev" \o strftime_gmtime(ct) ELSE ""

\* str(int(s)) for a string of digits
RECURSIVE StripZeros(_)
StripZeros(s) ==
    IF Len(s) > 1 /\ SubSeq(s, 1, 1) = "0" THEN StripZeros(SubSeq(s, 2, Len(s))) ELSE s

RECURSIVE JoinDots(_)
JoinDots(segs) ==
    IF Len(segs) = 1 THEN Head(segs) ELSE Head(segs) \o "." \o JoinDots(Tail(segs))

\* str(Version(s)) for the strings of the form [v]N(.N)*[.devN], which is the part of
\* PEP 440 the tags and the development suffix use: the optional 'v' is dropped and
\* every number is written without leading zeros.  Any other string is taken to raise
\* InvalidVersion, here the value None.
Version(s) ==
    LET segs == Split(removeprefix(s, "v"), ".")
        lastSeg == segs[Len(segs)]
        hasDev == Len(segs) > 1 /\ startswith(lastSeg, "dev")
                      /\ IsDigits(SubSeq(lastSeg, 4, Len(lastSeg)))
        release == IF hasDev THEN SubSeq(segs, 1, Len(segs) - 1) ELSE segs
    IN  IF \A i \in 1..Len(release) : IsDigits(release[i])
        THEN JoinDots([i \in 1..Len(release) |-> StripZeros(release[i])])
                 \o (IF hasDev
                     THEN ".dev" \o StripZeros(SubSeq(lastSeg, 4, Len(lastSeg)))
                     ELSE "")
        ELSE NoneValue

(***************************************************************************)
(* Metadata mappings and emsg.                                             *)
(***************************************************************************)
Scalar(k, v) == [key |-> k, list |-> FALSE, v |-> v]

Multi(k, v) == [key |-> k, list |-> TRUE, v |-> v]

PYPI_METADATA ==
    << Scalar("Metadata-Version", "2.1"),
       Scalar("Name", PRJ_NAME),
       Scalar("Summary", "PyPI packaged Buf CLI"),
       Scalar("Description-Content-Type", "text/markdown"),
       Scalar("Author", "Buf Technologies"),
       Scalar("Maintainer", "Fleshgrinder"),
       Scalar("Maintainer-email", "pypi@fleshgrinder.com"),
       Scalar("Home-page", ORIGIN_URL),
       Scalar("License-File", "LICENSE"),
       Scalar("License", "Apache-2.0"),
       Multi("Classifier",
             << "Topic :: Software Development :: Code Generators",
                "Topic :: Software Development :: Quality Assurance",
                "Topic :: Text Processing :: Markup",
                "Topic :: Utilities",
                "License :: OSI Approved :: Apache Software License" >>),
       Multi("Project-URL",
             << "Official Website, https://buf.build/",
                "Source Code, " \o UPSTREAM_URL,
                "Issue Tracker, " \o UPSTREAM_URL \o "/issues" >>) >>

WHL_METADATA ==
    << Scalar("Wheel-Version", "1.0"),
       Scalar("Generator", ORIGIN_URL),
       Scalar("Root-Is-Purelib", "false") >>

\* a slip: a value set earlier for the key stays in the mapping
DictSet_keeps(d, k, v) == Append(d, Scalar(k, v))

\* d[k] = v on a dict, which keeps its keys in the order they were first set
DictSet(d, k, v) ==
    IF \E i \in 1..Len(d) : d[i].key = k
    THEN [i \in 1..Len(d) |-> IF d[i].key = k THEN Scalar(k, v) ELSE d[i]]
    ELSE Append(d, Scalar(k, v))

RECURSIVE emsg_headers(_)
emsg_headers(headers) ==
    IF Len(headers) = 0 THEN <<>>
    ELSE LET h == Head(headers) IN
         (IF h.list THEN [i \in 1..Len(h.v) |-> <<h.key, h.v[i]>>] ELSE << <<h.key, h.v>> >>)
             \o emsg_headers(Tail(headers))

\* emsg: one header line per value, in the mapping's order, and the payload if any
emsg(headers, payload) ==
    [headers |-> emsg_headers(headers),
     payload |-> IF payload # "" THEN payload ELSE NoneValue]

(***************************************************************************)
(* ZipInfo and ReproducibleWheelFile.                                      *)
(***************************************************************************)
\* the attributes a ZipInfo has when it is made: the host decides create_system
ZipInfo(filename, host) ==
    [filename |-> filename, date_time |-> <<1980, 1, 1, 0, 0, 0>>,
     create_system |-> IF host = "win32" THEN 0 ELSE 3,
     compress_type |-> "ZIP_STORED", mode |-> 0]

\* a slip: the entry is written as made, without the two fields being fixed
writestr_as_made(zi, data) == [zi |-> zi, data |-> data]

\* ReproducibleWheelFile.writestr
writestr(zi, data) ==
    [zi |-> [zi EXCEPT !.create_system = 3, !.date_time = <<1980, 1, 1, 0, 0, 0>>],
     data |-> data]

\* st_mode of a regular file: k.external_attr = (p + 0o100000) << 16 keeps it in the
\* upper 16 bits, which is where `mode` stands for
S_IFREG == 32768

MODE_EXE == 493

MODE_DATA == 420

(***************************************************************************)
(* The command assemble.                                                   *)
(***************************************************************************)
\* the README texts PRJ_DESC_PATH.read_text() is taken to answer with
Descriptions == {"# buf-exe"}

\* the platforms the script is run on (sys.platform)
Hosts == {"linux", "win32"}

\* a slip: every entry gets the permission bits of a data file
Entry_mode_data(name, v, p, host) ==
    writestr([ZipInfo(name, host) EXCEPT !.compress_type = "ZIP_DEFLATED",
                                         !.mode = MODE_DATA + S_IFREG],
             v)

\* one entry of the archive: the ZipInfo as assemble sets it up (file_size, the length
\* of v, is not kept apart from v), then writestr
Entry(name, v, p, host) ==
    writestr([ZipInfo(name, host) EXCEPT !.compress_type = "ZIP_DEFLATED",
                                         !.mode = p + S_IFREG],
             v)

\* the four writes inside `with ReproducibleWheelFile(whl_file, "w")`
WheelEntries(whl_name, pypi_platform, exe, license_, pm, wm, description, host) ==
    LET exe_name == IF startswith(pypi_platform, "py2.py3-none-win")
                    THEN EXE_NAME \o ".exe" ELSE EXE_NAME
        dist_info == whl_name \o ".dist-info"
    IN  << Entry(whl_name \o ".data/scripts/" \o exe_name, exe, MODE_EXE, host),
           Entry(dist_info \o "/LICENSE", license_, MODE_DATA, host),
           Entry(dist_info \o "/METADATA", emsg(pm, description), MODE_DATA, host),
           Entry(dist_info \o "/WHEEL", emsg(wm, ""), MODE_DATA, host) >>

\* what is recorded of an archive written: where, and what it was made from
Written(whl_file, pypi_platform, exe, c, entries) ==
    [path |-> whl_file, tag |-> c.tag, version |-> c.version, platform |-> pypi_platform,
     exe |-> exe, license |-> c.license, description |-> c.description,
     host |-> c.host, entries |-> entries]

\* the inner loop of assemble over the staged files of one tag; c holds what the
\* outer loop has set for the tag, acc the dist tree, the WHEEL mapping shared by all
\* iterations and the archives written so far
RECURSIVE assemble_exes(_, _, _, _)
assemble_write(bt, exes, c, acc, whl_file, pypi_platform, wm, entries) ==
    assemble_exes(bt, Tail(exes), c,
                  [tree |-> WriteFile(acc.tree, whl_file, entries),
                   whl_metadata |-> wm,
                   log |-> acc.log \cup
                       {Written(whl_file, pypi_platform, bt[Head(exes)].data, c, entries)}])

\* a slip: an archive that exists is written again
assemble_exe_overwrites(bt, exes, c, acc, exe_file, pypi_platform, whl_file, wm) ==
    IF ~IsFile(bt, exe_file)
    THEN assemble_exes(bt, Tail(exes), c, acc)
    ELSE assemble_write(bt, exes, c, acc, whl_file, pypi_platform, wm,
                        WheelEntries(c.whl_name, pypi_platform, bt[exe_file].data,
                                     c.license, c.pypi_metadata, wm, c.description,
                                     c.host))

assemble_exe(bt, exes, c, acc, exe_file, pypi_platform, whl_file, wm) ==
    IF ~IsFile(bt, exe_file) \/ whl_file \in DOMAIN acc.tree
    THEN assemble_exes(bt, Tail(exes), c, acc)
    ELSE assemble_write(bt, exes, c, acc, whl_file, pypi_platform, wm,
                        WheelEntries(c.whl_name, pypi_platform, bt[exe_file].data,
                                     c.license, c.pypi_metadata, wm, c.description,
                                     c.host))

assemble_exes(bt, exes, c, acc) ==
    IF exes = <<>> THEN acc
    ELSE assemble_exe(bt, exes, c, acc, Head(exes), Head(exes)[Len(Head(exes))],
                      <<c.version,
                        c.whl_name \o "-" \o Head(exes)[Len(Head(exes))] \o ".whl">>,
                      DictSet(acc.whl_metadata, "Tag", Head(exes)[Len(Head(exes))]))

\* the outer loop of assemble over the staged tag directories, in the order given;
\* pm is the METADATA mapping shared by all iterations
RECURSIVE assemble_loop(_, _, _, _, _)
assemble_tag(bt, tag_dirs, c, pm, acc, tag_dir, tag, version, pm2) ==
    IF ~IsDir(bt, tag_dir) THEN assemble_loop(bt, Tail(tag_dirs), c, pm, acc)
    ELSE IF version = NoneValue
    THEN [tree |-> acc.tree, err |-> "InvalidVersion", log |-> acc.log]
    ELSE IF ~IsFile(bt, Append(tag_dir, "LICENSE"))
    THEN [tree |-> Mkdirs(acc.tree, <<version>>), err |-> "FileNotFoundError",
          log |-> acc.log]
    ELSE assemble_loop(bt, Tail(tag_dirs), c, pm2,
             assemble_exes(bt,
                 SetToSeq(Glob(bt, tag_dir, "py2.py3-none-*")),
                 [tag |-> tag, version |-> version,
                  whl_name |-> WHL_NAME \o "-" \o version,
                  pypi_metadata |-> pm2,
                  license |-> bt[Append(tag_dir, "LICENSE")].data,
                  description |-> c.description, host |-> c.host],
                 [acc EXCEPT !.tree = Mkdirs(acc.tree, <<version>>)]))

assemble_version(bt, tag_dirs, c, pm, acc, tag_dir, tag, version) ==
    assemble_tag(bt, tag_dirs, c, pm, acc, tag_dir, tag, version,
                 DictSet(DictSet(pm, "Version", version), "Download-URL",
                         UPSTREAM_URL \o "/releases/tag/" \o tag))

assemble_loop(bt, tag_dirs, c, pm, acc) ==
    IF tag_dirs = <<>> THEN [tree |-> acc.tree, err |-> "ok", log |-> acc.log]
    ELSE assemble_version(bt, tag_dirs, c, pm, acc, Head(tag_dirs),
                          Head(tag_dirs)[Len(Head(tag_dirs))],
                          Version(removeprefix(Head(tag_dirs)[Len(Head(tag_dirs))], "v")
                                      \o c.suffix))

\* the command assemble over the staged directories in the order the glob yields them
assemble(bt, t, clean, dev, order, ct, description, host) ==
    assemble_loop(bt, order,
                  [suffix |-> version_suffix(dev, ct), description |-> description,
                   host |-> host],
                  PYPI_METADATA,
                  [tree |-> maybe_clean(clean, t), whl_metadata |-> WHL_METADATA,
                   log |-> {}])

(***************************************************************************)
(* The pipeline: one action per command run.                               *)
(***************************************************************************)
NoRelease == [id |-> 0, tag_name |-> "", assets |-> <<>>]

NoRun ==
    [cmd |-> "none", args |-> <<>>, err |-> "ok", reqs |-> <<>>, work |-> 0,
     changed |-> FALSE, rep |-> "no", dir |-> <<>>, release |-> NoRelease,
     prev |-> [cmd |-> "none", err |-> "ok", dir |-> <<>>]]

\* what a run keeps of the run before it
Prev == [cmd |-> last.cmd, err |-> last.err, dir |-> last.dir]

\* the globs tried for --tag
TagGlobs == {"*", "v1.2.3"}

\* what a run with the same command and inputs as the run before it is marked with
Rep(cmd, args) ==
    IF last.cmd = cmd /\ last.args = args
    THEN (IF last.err = "ok" THEN "afterOk" ELSE "afterErr")
    ELSE "no"

\* the module is loaded: with no token the script exits before any command runs
LoadFails(cmd, args) ==
    /\ SessionSetupFails(env)
    /\ last' = [NoRun EXCEPT !.cmd = cmd, !.args = args, !.err = "SystemExit",
                             !.rep = Rep(cmd, args), !.prev = Prev]
    /\ UNCHANGED <<cacheT, buildT, distT, written>>

\* the files a release's download asks for by name
FileNames(release) ==
    {"LICENSE"} \cup {a \in {release.assets[i] : i \in 1..Len(release.assets)} :
                         asset_filter(a)}

\* the failures that can happen to a download: of the release request, or of the
\* request for a file that is not on disk (failures are tried on runs without --clean)
CanFail(fault, t, clean, ref, release) ==
    \/ fault.at = "none"
    \/ ~clean /\ fault.at = "API"
    \/ ~clean /\ Append(ExeDir(ref, release), fault.at) \notin DOMAIN t

DownloadDone(args, d) ==
    /\ cacheT' = d.r.tree
    /\ last' = [cmd |-> "download", args |-> args, err |-> d.r.err, reqs |-> d.r.reqs,
                work |-> Len(d.r.reqs) - 1, changed |-> d.r.tree # cacheT,
                rep |-> Rep("download", args), dir |-> d.dir, release |-> d.release,
                prev |-> Prev]
    /\ UNCHANGED <<buildT, distT, written>>

Download ==
    /\ runs < MaxRuns
    /\ runs' = runs + 1
    /\ UNCHANGED <<env, mp, fr, vf, pb>>
    /\ \E tag \in TagArgs, clean \in BOOLEAN, latest \in Releases :
       \E fault \in Faults(FileNames(ApiGet(IF tag # "latest" THEN "tags/" \o tag ELSE tag,
                                            latest, NoFault).json)) :
           /\ tag # "latest" => latest = ApiGet("tags/" \o tag, latest, NoFault).json
           /\ CanFail(fault, cacheT, clean, IF tag # "latest" THEN "tags/" \o tag ELSE tag,
                      ApiGet(IF tag # "latest" THEN "tags/" \o tag ELSE tag,
                             latest, NoFault).json)
           /\ \/ LoadFails("download",
                           [tag |-> tag, clean |-> clean, latest |-> latest,
                            fault |-> fault])
              \/ /\ ~SessionSetupFails(env)
                 /\ DownloadDone([tag |-> tag, clean |-> clean, latest |-> latest,
                                  fault |-> fault],
                                 download(env, cacheT, tag, clean, fault, latest))

BuildDone(args, r) ==
    /\ buildT' = r.tree
    /\ last' = [NoRun EXCEPT !.cmd = "build", !.args = args, !.err = r.err,
                             !.work = r.work, !.changed = (r.tree # buildT),
                             !.rep = Rep("build", args), !.prev = Prev]
    /\ UNCHANGED <<cacheT, distT, written>>

Build ==
    /\ runs < MaxRuns
    /\ runs' = runs + 1
    /\ UNCHANGED <<env, mp, fr, vf, pb>>
    /\ \E clean \in BOOLEAN, tag_glob \in TagGlobs :
       \E order \in Orders(Glob(cacheT, <<>>, tag_glob)) :
           \/ LoadFails("build", [clean |-> clean, tag_glob |-> tag_glob])
           \/ /\ ~SessionSetupFails(env)
              /\ BuildDone([clean |-> clean, tag_glob |-> tag_glob],
                           build(cacheT, buildT, clean, order))

AssembleDone(args, r) ==
    /\ distT' = r.tree
    /\ written' = written \cup r.log
    /\ last' = [NoRun EXCEPT !.cmd = "assemble", !.args = args, !.err = r.err,
                             !.work = Cardinality(r.log), !.changed = (r.tree # distT),
                             !.rep = Rep("assemble", args), !.prev = Prev]
    /\ UNCHANGED <<cacheT, buildT>>

Assemble ==
    /\ runs < MaxRuns
    /\ runs' = runs + 1
    /\ UNCHANGED <<env, mp, fr, vf, pb>>
    /\ \E clean \in BOOLEAN, dev \in BOOLEAN, tag \in TagGlobs, ct \in CommitTimes,
          description \in Descriptions, host \in Hosts :
       \E order \in Orders(Glob(buildT, <<>>, tag)) :
           \/ LoadFails("assemble",
                        [clean |-> clean, dev |-> dev, tag |-> tag, ct |-> ct,
                         description |-> description])
           \/ /\ ~SessionSetupFails(env)
              /\ AssembleDone([clean |-> clean, dev |-> dev, tag |-> tag, ct |-> ct,
                               description |-> description],
                              assemble(buildT, distT, clean, dev, order, ct, description,
                                       host))

Idle == [phase |-> "idle"]

ReleaseOf(id) == CHOOSE r \in Releases : r.id = id

TokenEnv == [GITHUB_TOKEN |-> NoneValue, GH_TOKEN |-> "ghp_token"]

\* The cache persists from one run of the script to the next.  A behaviour starts
\* from a fresh checkout or from what two earlier downloads have left: of the latest
\* release when that was release 1, and again when it was release 2.
CacheR1 == download(TokenEnv, EmptyTree, "latest", FALSE, NoFault, ReleaseOf(1)).r.tree

CacheR1R2 == download(TokenEnv, CacheR1, "latest", FALSE, NoFault, ReleaseOf(2)).r.tree

InitCaches == {EmptyTree, CacheR1R2}

Init ==
    /\ env \in {e \in Environments : e.GITHUB_TOKEN = NoneValue}
    /\ cacheT \in InitCaches
    /\ buildT = EmptyTree
    /\ distT = EmptyTree
    /\ last = NoRun
    /\ runs = 0
    /\ written = {}
    /\ mp = Idle
    /\ fr = Idle
    /\ vf = Idle
    /\ pb = Idle

Next == Download \/ Build \/ Assemble

Spec == Init /\ [][Next]_vars

(***************************************************************************)
(* map_platform on its own: calls with file names drawn from a set that    *)
(* holds every table key with and without the prefix and the suffix, and   *)
(* names that differ from those in case, prefix, suffix or key.            *)
(***************************************************************************)
MapKeys ==
    {"Linux-aarch64", "Linux-x86_64", "Darwin-arm64", "Darwin-x86_64", "Windows-arm64",
     "Windows-x86_64", "Linux-riscv64", "linux-x86_64", "Linux", ""}

MapInputs ==
    {p \o k \o x : p \in {"", "buf-", "buf", "buf-buf-"}, k \in MapKeys,
                   x \in {"", ".exe", ".exe.exe"}}

\* the last two calls, oldest first
LastTwo(calls) == IF Len(calls) > 2 THEN Tail(calls) ELSE calls

MapCall ==
    /\ \E str \in MapInputs :
           mp' = [phase |-> "map",
                  calls |-> LastTwo(Append(mp.calls, [input |-> str,
                                                      result |-> map_platform(str)]))]
    /\ UNCHANGED <<env, cacheT, buildT, distT, last, runs, written, fr, vf, pb>>

\* the variables of the pipeline, at rest
PipelineAtRest ==
    /\ env = TokenEnv
    /\ cacheT = EmptyTree
    /\ buildT = EmptyTree
    /\ distT = EmptyTree
    /\ last = NoRun
    /\ runs = 0
    /\ written = {}

InitMap ==
    /\ PipelineAtRest
    /\ mp = [phase |-> "map", calls |-> <<>>]
    /\ fr = Idle
    /\ vf = Idle
    /\ pb = Idle

SpecMap == InitMap /\ [][MapCall]_vars

(***************************************************************************)
(* sync and fetch_releases: one action per request of the generator.      *)
(***************************************************************************)
\* releases received in one run of sync
MaxReleases == 3
\* pages of one repository's listing
MaxPages == 2

Rel(id, tag_name, draft, prerelease) ==
    [id |-> id, url |-> "https://api.github.com/repos/releases/" \o NatToStr(id, 1),
     tag_name |-> tag_name, draft |-> draft, prerelease |-> prerelease, assets |-> <<>>]

\* what the listing may hold: a release, the same release after its tag was renamed,
\* and drafts and prereleases
ReleaseUniverse ==
    { Rel(1, "v1.0.0", FALSE, FALSE), Rel(1, "v1.0.0-renamed", FALSE, FALSE),
      Rel(2, "v2.0.0", FALSE, FALSE), Rel(2, "v2.0.0", TRUE, FALSE),
      Rel(3, "v3.0.0-rc1", FALSE, TRUE), Rel(3, "v3.0.0-rc1", TRUE, TRUE) }

PagesUpTo(n) == UNION {[1..k -> ReleaseUniverse] : k \in 0..n}

\* Release.__hash__: of the fields declared without hash=False
Release_hash(r) == r.id

\* Release.__eq__: the dataclass compares every field, as none is declared compare=False
Release_eq(a, b) ==
    /\ a.id = b.id /\ a.url = b.url /\ a.tag_name = b.tag_name
    /\ a.draft = b.draft /\ a.prerelease = b.prerelease /\ a.assets = b.assets

\* adding x to a set under construction: kept out only by an equal member
SetAdd(S, x) ==
    IF \E e \in S : Release_hash(e) = Release_hash(x) /\ Release_eq(e, x)
    THEN S ELSE S \cup {x}

\* frozenset(seq)
RECURSIVE frozenset(_, _)
frozenset(S, seq) ==
    IF Len(seq) = 0 THEN S ELSE frozenset(SetAdd(S, Head(seq)), Tail(seq))

\* a slip: a release is passed on unless it is both a draft and a prerelease
Yielded_either(it) == ~it.draft \/ ~it.prerelease

\* if not it.draft and not it.prerelease: yield it
Yielded(it) == ~it.draft /\ ~it.prerelease

\* the releases one page yields, in the page's order
RECURSIVE YieldPage(_)
YieldPage(items) ==
    IF Len(items) = 0 THEN <<>>
    ELSE (IF Yielded(Head(items)) THEN <<Head(items)>> ELSE <<>>) \o YieldPage(Tail(items))

FirstUrl(repo) == "https://api.github.com/repos/" \o repo \o "/releases?per_page=100"

\* the URL the service gives in the "next" link of page `page`
NextUrl(repo, page) == FirstUrl(repo) \o "&page=" \o NatToStr(page + 1, 1)

NoSet == {}

\* sync() is entered: fetch_releases(ORIGIN) starts with page 1
SyncStart ==
    [phase |-> "fetch", repo |-> ORIGIN, page |-> 1, url |-> FirstUrl(ORIGIN),
     requests |-> <<>>, links |-> <<>>, received |-> <<>>, yielded |-> <<>>,
     budget |-> MaxReleases,
     origin_releases |-> NoSet, upstream_releases |-> NoSet, origin_done |-> FALSE,
     origin_yielded |-> <<>>, origin_requests |-> <<>>, origin_links |-> <<>>]

\* the generator is exhausted: the frozenset is complete and printed; sync goes on to
\* the upstream repository, or returns
Exhausted(f) ==
    IF f.repo = ORIGIN
    THEN [f EXCEPT !.origin_releases = frozenset({}, f.yielded), !.origin_done = TRUE,
                   !.origin_yielded = f.yielded, !.origin_requests = f.requests,
                   !.origin_links = f.links,
                   !.repo = UPSTREAM, !.page = 1, !.url = FirstUrl(UPSTREAM),
                   !.requests = <<>>, !.links = <<>>, !.received = <<>>,
                   !.yielded = <<>>]
    ELSE [f EXCEPT !.upstream_releases = frozenset({}, f.yielded), !.phase = "done"]

\* one pass of the loop of fetch_releases with a success status: the page's items are
\* filtered and yielded; without a "next" link the loop ends.  links keeps, for each
\* response, the URL of its "next" link, or None
FetchPage ==
    /\ fr.phase = "fetch"
    /\ \E items \in PagesUpTo(fr.budget), next \in BOOLEAN :
           /\ next => fr.page < MaxPages
           /\ LET f == [fr EXCEPT !.requests = Append(@, fr.url),
                                  !.links = Append(@, IF next
                                                      THEN NextUrl(fr.repo, fr.page)
                                                      ELSE NoneValue),
                                  !.received = Append(@, items),
                                  !.yielded = @ \o YieldPage(items),
                                  !.budget = @ - Len(items)]
              IN  fr' = IF next
                        THEN [f EXCEPT !.page = @ + 1, !.url = f.links[Len(f.links)]]
                        ELSE Exhausted(f)
    /\ UNCHANGED <<env, cacheT, buildT, distT, last, runs, written, mp, vf, pb>>

\* a slip: the page is requested again after a failure status
FetchFail_retries ==
    /\ fr.phase = "fetch"
    /\ Len(fr.requests) < MaxPages + 1
    /\ fr' = [fr EXCEPT !.requests = Append(@, fr.url)]
    /\ UNCHANGED <<env, cacheT, buildT, distT, last, runs, written, mp, vf, pb>>

\* one pass of the loop with another status: fail() ends the script
FetchFail ==
    /\ fr.phase = "fetch"
    /\ fr' = [fr EXCEPT !.requests = Append(@, fr.url), !.phase = "failed"]
    /\ UNCHANGED <<env, cacheT, buildT, distT, last, runs, written, mp, vf, pb>>

InitSync ==
    /\ PipelineAtRest
    /\ mp = Idle
    /\ fr = SyncStart
    /\ vf = Idle
    /\ pb = Idle

NextSync == FetchPage \/ FetchFail

SpecSync == InitSync /\ [][NextSync]_vars

(***************************************************************************)
(* verify: one action per pass of its loop.                                *)
(***************************************************************************)
\* The build and dist trees verify finds: what build and assemble leave from the
\* cache of both releases, after assemble alone and after assemble and then
\* assemble --dev.
StagedR1R2 ==
    build(CacheR1R2, EmptyTree, FALSE, SetToSeq(Glob(CacheR1R2, <<>>, "*"))).tree

DistRelease ==
    assemble(StagedR1R2, EmptyTree, FALSE, FALSE, SetToSeq(Glob(StagedR1R2, <<>>, "*")),
             1700000000, "# buf-exe", "linux").tree

DistReleaseAndDev ==
    assemble(StagedR1R2, DistRelease, FALSE, TRUE, SetToSeq(Glob(StagedR1R2, <<>>, "*")),
             1700000000, "# buf-exe", "linux").tree

\* a dist directory that also holds a plain file next to the version directories
DistAndFile == WriteFile(DistReleaseAndDev, <<".gitkeep">>, [blob |-> "", full |-> TRUE])

InitDists == {EmptyTree, DistRelease, DistReleaseAndDev, DistAndFile}

\* the globs tried for --version
VersionGlobs == {"*", "1.2.3"}

\* the archives of one version directory: version_dir.glob("*.whl"), files only
Dists(t, version_dir) == {p \in Glob(t, version_dir, "*.whl") : IsFile(t, p)}

\* twine's check(dists, strict=True): true when an archive of dists fails the check;
\* bad holds the archives that fail it
check(dists, bad) == \E d \in dists : d \in bad

\* a slip: the flag is assigned, not accumulated
accumulate_assign(errors, failed) == failed

\* errors |= check(dists, strict=True)
accumulate(errors, failed) == errors \/ failed

\* verify is entered: the glob is expanded, in some order; which archives fail the
\* strict check is up to their content
VerifyStart ==
    /\ vf.phase = "start"
    /\ \E version_glob \in VersionGlobs :
       \E order \in Orders(Glob(distT, <<>>, version_glob)),
          bad \in SUBSET {p \in DOMAIN distT : IsFile(distT, p)} :
           vf' = [phase |-> "loop", version_glob |-> version_glob, todo |-> order,
                  bad |-> bad, errors |-> FALSE, calls |-> <<>>, code |-> 0]
    /\ UNCHANGED <<env, cacheT, buildT, distT, last, runs, written, mp, fr, pb>>

\* one pass of the loop over a version directory: its archives are checked
VerifyDir ==
    /\ vf.phase = "loop"
    /\ Len(vf.todo) > 0
    /\ IsDir(distT, Head(vf.todo))
    /\ vf' = [vf EXCEPT !.todo = Tail(@),
                        !.errors = accumulate(@, check(Dists(distT, Head(vf.todo)), vf.bad)),
                        !.calls = Append(@, [dir |-> Head(vf.todo),
                                             dists |-> Dists(distT, Head(vf.todo)),
                                             failed |-> check(Dists(distT, Head(vf.todo)),
                                                              vf.bad)])]
    /\ UNCHANGED <<env, cacheT, buildT, distT, last, runs, written, mp, fr, pb>>

\* one pass of the loop over something that is no directory
VerifySkip ==
    /\ vf.phase = "loop"
    /\ Len(vf.todo) > 0
    /\ ~IsDir(distT, Head(vf.todo))
    /\ vf' = [vf EXCEPT !.todo = Tail(@)]
    /\ UNCHANGED <<env, cacheT, buildT, distT, last, runs, written, mp, fr, pb>>

\* raise SystemExit(int(errors))
VerifyExit ==
    /\ vf.phase = "loop"
    /\ Len(vf.todo) = 0
    /\ vf' = [vf EXCEPT !.phase = "exit", !.code = IF vf.errors THEN 1 ELSE 0]
    /\ UNCHANGED <<env, cacheT, buildT, distT, last, runs, written, mp, fr, pb>>

InitVerify ==
    /\ env = TokenEnv
    /\ cacheT = CacheR1R2
    /\ buildT \in {EmptyTree, StagedR1R2}
    /\ distT \in InitDists
    /\ distT # EmptyTree => buildT = StagedR1R2
    /\ last = NoRun
    /\ runs = 0
    /\ written = {}
    /\ mp = Idle
    /\ fr = Idle
    /\ vf = [phase |-> "start"]
    /\ pb = Idle

NextVerify == VerifyStart \/ VerifyDir \/ VerifySkip \/ VerifyExit

SpecVerify == InitVerify /\ [][NextVerify]_vars

(***************************************************************************)
(* publish: one action for the check of the working tree, then one per     *)
(* pass of the loop.                                                       *)
(***************************************************************************)
\* what `git status --porcelain=v1` is taken to print: nothing, or a changed file
PorcelainOutputs == {"", " M redist.py"}

\* has_uncommitted_changes, given what git prints
has_uncommitted_changes(porcelain) == porcelain # ""

\* a slip: the working tree is not looked at
Refuses_never(force, porcelain) == FALSE

\* if force is False and has_uncommitted_changes() is True: fail(...)
Refuses(force, porcelain) == ~force /\ has_uncommitted_changes(porcelain)

\* the repositories tried for the argument repo
Repos == {"testpypi", "pypi"}

\* publish is entered: it refuses, or expands the glob, in some order
PublishStart ==
    /\ pb.phase = "start"
    /\ \E force \in BOOLEAN, porcelain \in PorcelainOutputs, repo \in Repos,
          version \in VersionGlobs :
       \E order \in Orders(Glob(distT, <<>>, version)) :
           pb' = [phase |-> IF Refuses(force, porcelain) THEN "failed" ELSE "loop",
                  force |-> force, porcelain |-> porcelain, repo |-> repo,
                  version |-> version,
                  todo |-> IF Refuses(force, porcelain) THEN <<>> ELSE order,
                  uploads |-> <<>>]
    /\ UNCHANGED <<env, cacheT, buildT, distT, last, runs, written, mp, fr, vf>>

\* one pass of the loop over a version directory: its archives are uploaded
PublishDir ==
    /\ pb.phase = "loop"
    /\ Len(pb.todo) > 0
    /\ IsDir(distT, Head(pb.todo))
    /\ pb' = [pb EXCEPT !.todo = Tail(@),
                        !.uploads = Append(@, [repo |-> pb.repo,
                                               dists |-> Dists(distT, Head(pb.todo))])]
    /\ UNCHANGED <<env, cacheT, buildT, distT, last, runs, written, mp, fr, vf>>

\* one pass of the loop over something that is no directory
PublishSkip ==
    /\ pb.phase = "loop"
    /\ Len(pb.todo) > 0
    /\ ~IsDir(distT, Head(pb.todo))
    /\ pb' = [pb EXCEPT !.todo = Tail(@)]
    /\ UNCHANGED <<env, cacheT, buildT, distT, last, runs, written, mp, fr, vf>>

\* the loop has ended
PublishEnd ==
    /\ pb.phase = "loop"
    /\ Len(pb.todo) = 0
    /\ pb' = [pb EXCEPT !.phase = "done"]
    /\ UNCHANGED <<env, cacheT, buildT, distT, last, runs, written, mp, fr, vf>>

InitPublish ==
    /\ env = TokenEnv
    /\ cacheT = CacheR1R2
    /\ buildT \in {EmptyTree, StagedR1R2}
    /\ distT \in InitDists
    /\ distT # EmptyTree => buildT = StagedR1R2
    /\ last = NoRun
    /\ runs = 0
    /\ written = {}
    /\ mp = Idle
    /\ fr = Idle
    /\ vf = Idle
    /\ pb = [phase |-> "start"]

NextPublish == PublishStart \/ PublishDir \/ PublishSkip \/ PublishEnd

SpecPublish == InitPublish /\ [][NextPublish]_vars

(***************************************************************************)
(* build and assemble over several tags: the cache holds a release with an *)
(* asset for a platform the table does not know, next to the two releases  *)
(* whose tags give the same version.                                       *)
(***************************************************************************)
\* a release with executables for three platforms, one of them without a mapping
ReleaseArm ==
    [id |-> 3, tag_name |-> "v1.3.0",
     assets |-> <<"buf-Linux-armv7", "buf-Linux-x86_64", "buf-Darwin-arm64">>]

\* what download leaves of it, alone and next to the two other releases
CacheArm == download(TokenEnv, EmptyTree, "latest", FALSE, NoFault, ReleaseArm).r.tree

CacheArmR1R2 == download(TokenEnv, CacheR1R2, "latest", FALSE, NoFault, ReleaseArm).r.tree

\* what is left when the stream of the LICENSE broke in a first download, that of
\* buf-Linux-x86_64 in a second, and a third download fetched the rest: a truncated
\* LICENSE and a truncated executable next to the other executables
CacheArmCut ==
    download(TokenEnv,
             download(TokenEnv,
                      download(TokenEnv, EmptyTree, "latest", FALSE,
                               [at |-> "LICENSE", kind |-> "io"], ReleaseArm).r.tree,
                      "latest", FALSE, [at |-> "buf-Linux-x86_64", kind |-> "io"],
                      ReleaseArm).r.tree,
             "latest", FALSE, NoFault, ReleaseArm).r.tree

\* the staging tree build made of that cache, and the dist tree assemble made of it
\* from an earlier text of the README
StagedArmCut ==
    build(CacheArmCut, EmptyTree, FALSE, SetToSeq(Glob(CacheArmCut, <<>>, "*"))).tree

DistArmCut ==
    assemble(StagedArmCut, EmptyTree, FALSE, FALSE, SetToSeq(Glob(StagedArmCut, <<>>, "*")),
             1700000000, "# buf", "linux").tree

\* the texts PRJ_DESC_PATH.read_text() is taken to answer with, when it may change
\* between runs
ReadmeTexts == {"# buf-exe", "# buf-exe 2"}

\* the commit times tried in development mode: 2023-11-14 22:13:20 and the leap day
\* 2000-02-29 00:00:00
DevCommitTimes == {1700000000, 951782400}

\* one run of assemble on a Linux host, with the README and the latest commit as they
\* are at the run
AssembleTags ==
    /\ runs < MaxRuns
    /\ runs' = runs + 1
    /\ UNCHANGED <<env, mp, fr, vf, pb>>
    /\ \E clean \in BOOLEAN, dev \in BOOLEAN, tag \in TagGlobs, ct \in DevCommitTimes,
          description \in ReadmeTexts :
       \E order \in Orders(Glob(buildT, <<>>, tag)) :
           \* git log is only run in development mode
           /\ ~dev => ct = 1700000000
           /\ AssembleDone([clean |-> clean, dev |-> dev, tag |-> tag, ct |-> ct,
                            description |-> description],
                           assemble(buildT, distT, clean, dev, order, ct, description,
                                    "linux"))

InitTags ==
    /\ env = TokenEnv
    /\ \/ cacheT \in {CacheArm, CacheArmR1R2} /\ buildT = EmptyTree /\ distT = EmptyTree
       \/ cacheT = CacheArm /\ buildT = StagedArmCut /\ distT = DistArmCut
    /\ last = NoRun
    /\ runs = 0
    /\ written = {}
    /\ mp = Idle
    /\ fr = Idle
    /\ vf = Idle
    /\ pb = Idle

NextTags == Build \/ AssembleTags

SpecTags == InitTags /\ [][NextTags]_vars

(***************************************************************************)
(* Properties of the pipeline.                                             *)
(***************************************************************************)
\* the reference of the release request the last download sent
LastRef == IF last.args.tag # "latest" THEN "tags/" \o last.args.tag ELSE last.args.tag

\* directory dir holds every file of the release, each with its full upstream content
Complete(t, dir, files) ==
    \A i \in 1..Len(files) :
        /\ IsFile(t, Append(dir, files[i].name))
        /\ t[Append(dir, files[i].name)].data = Upstream(files[i].url)

\* C1: when a download was aborted by an I/O failure while a file was being written
\* and the download of the same tag is run again and returns without error, the tag
\* directory holds the LICENSE and every matching asset with its full upstream content.
C1_ResumeCompletes ==
    (/\ last.cmd = "download" /\ last.err = "ok"
     /\ last.prev.cmd = "download" /\ last.prev.err = "IOError"
     /\ last.prev.dir = last.dir)
        => Complete(cacheT, last.dir, FilesOf(LastRef, last.release))

\* C2: a download that returns without error has stored the LICENSE and the matching
\* assets in the directory named by the release's tag name directly below the cache
\* root, for a tag given on the command line as for "latest".
C2_TagDirectory ==
    (last.cmd = "download" /\ last.err = "ok")
        => /\ last.dir = <<last.release.tag_name>>
           /\ \A f \in FileNames(last.release) :
                  IsFile(cacheT, <<last.release.tag_name, f>>)

\* C3 as stated (with a token set): a run of download, build or assemble that follows
\* a run of the same command with identical inputs and without --clean changes no
\* tree, does no download, copy or archive write, and raises no error.
C3_SecondRunIsNoOp ==
    (~SessionSetupFails(env) /\ last.rep # "no" /\ ~last.args.clean)
        => ~last.changed /\ last.work = 0 /\ last.err = "ok"

\* C3 as amended: the same, for a second run that follows a run which completed
\* without error.
C3_SecondRunAfterSuccessIsNoOp ==
    (last.rep = "afterOk" /\ ~last.args.clean)
        => ~last.changed /\ last.work = 0 /\ last.err = "ok"

\* an archive is in dist and assemble has just been run a second time over it
C3_Witness ==
    /\ last.cmd = "assemble" /\ last.rep = "afterOk" /\ ~last.args.clean
    /\ \E p \in DOMAIN distT : IsFile(distT, p)

C8_Wheel ==
    <<"1.2.3",
      "buf_exe-1.2.3-py2.py3-none-manylinux_2_5_x86_64.manylinux1_x86_64.whl">>

\* the cache holds only tag v1.2.3, complete; build has run over it with build and
\* dist empty, and then assemble, not in development mode
C8_Scenario ==
    /\ runs = 3
    /\ cacheT = CacheR1
    /\ last.cmd = "assemble" /\ ~last.args.dev
    /\ last.prev.cmd = "build"

NoToken == env.GITHUB_TOKEN = NoneValue /\ env.GH_TOKEN = NoneValue

\* C10: with neither token variable set, every command run ends in the configuration
\* error, has sent no request and leaves the cache, build and dist trees as they were.
C10_NoTokenNoWork ==
    [][NoToken => /\ last'.err = "SystemExit"
                  /\ last'.reqs = <<>>
                  /\ <<cacheT, buildT, distT>>' = <<cacheT, buildT, distT>>]_vars

\* without a token, download --clean was run over a cache that holds files
C10_Witness ==
    /\ NoToken
    /\ last.cmd = "download" /\ last.args.clean /\ last.err = "SystemExit"
    /\ \E p \in DOMAIN cacheT : IsFile(cacheT, p)

(***************************************************************************)
(* Properties of map_platform.                                             *)
(***************************************************************************)
\* the platform tag of each of the six keys
C4_Table ==
    ("Linux-aarch64" :> "manylinux_2_17_aarch64.manylinux2014_aarch64") @@
    ("Linux-x86_64" :> "manylinux_2_5_x86_64.manylinux1_x86_64") @@
    ("Darwin-arm64" :> "macosx_11_0_arm64") @@
    ("Darwin-x86_64" :> "macosx_10_4_x86_64") @@
    ("Windows-arm64" :> "win_arm64") @@
    ("Windows-x86_64" :> "win_amd64")

\* the names that are a key with or without the prefix 'buf-' and the suffix '.exe'
C4_KeyOf(str) ==
    {k \in DOMAIN C4_Table : \E p \in {"", "buf-"}, x \in {"", ".exe"} : str = p \o k \o x}

\* C4: map_platform returns the key's platform tag for a name that is one of the six
\* keys with or without the prefix 'buf-' and the suffix '.exe', the unknown sentinel
\* for every other name, and the same result for the same name on every call.
C4_MapPlatform ==
    /\ \A i \in 1..Len(mp.calls) :
           IF C4_KeyOf(mp.calls[i].input) # {}
           THEN \A k \in C4_KeyOf(mp.calls[i].input) : mp.calls[i].result = C4_Table[k]
           ELSE mp.calls[i].result = NoneValue
    /\ \A i, j \in 1..Len(mp.calls) :
           mp.calls[i].input = mp.calls[j].input => mp.calls[i].result = mp.calls[j].result

\* a Windows executable was mapped, and after it a name with no mapping
C4_Witness ==
    /\ Len(mp.calls) = 2
    /\ mp.calls[1].input = "buf-Windows-x86_64.exe" /\ mp.calls[1].result = "win_amd64"
    /\ mp.calls[2].input = "buf-Linux-riscv64" /\ mp.calls[2].result = NoneValue

(***************************************************************************)
(* Properties of sync and fetch_releases.                                  *)
(***************************************************************************)
RECURSIVE Flatten(_)
Flatten(pages) == IF Len(pages) = 0 THEN <<>> ELSE Head(pages) \o Flatten(Tail(pages))

Published(r) == r.draft = FALSE /\ r.prerelease = FALSE

\* C5: the set sync materializes from the releases fetched over several pages holds
\* exactly one entry per release identifier, also when the occurrences of an
\* identifier differ in other fields.
C5_OnePerIdentifier ==
    fr.phase # "idle" /\ fr.origin_done
        => \A a, b \in fr.origin_releases : a.id = b.id => a = b

\* C6: what fetch_releases has yielded is, at every point, the releases received so
\* far that are neither draft nor prerelease, each once per occurrence, in the order
\* of the pages and of their entries.
C6_Filtered ==
    fr.phase # "idle"
        => fr.yielded = SelectSeq(Flatten(fr.received), Published)

\* two pages were received that hold a draft, a prerelease and two published releases
C6_Witness ==
    /\ fr.phase # "idle"
    /\ Len(fr.received) = 2
    /\ Len(fr.received[1]) > 0 /\ Len(fr.received[2]) > 0
    /\ \E r \in ReleaseUniverse :
           r.draft /\ ~r.prerelease /\ \E i \in 1..Len(fr.received[1]) : fr.received[1][i] = r
    /\ \E r \in ReleaseUniverse :
           ~r.draft /\ r.prerelease /\ \E i \in 1..Len(fr.received[2]) : fr.received[2][i] = r
    /\ Len(fr.yielded) = 1

\* the requests and "next" links of one run of fetch_releases over repo: the first
\* request is the first page's URL and each later one the URL of the "next" link of
\* the response before it, no URL twice; a response without a "next" link is the last,
\* and after it the generator is exhausted; every request but a failed one has its
\* response
C15_Run(repo, requests, links, exhausted, failed) ==
    /\ Len(requests) > 0 =>
           requests[1] = "https://api.github.com/repos/" \o repo \o "/releases?per_page=100"
    /\ \A i \in 2..Len(requests) : requests[i] = links[i - 1] /\ links[i - 1] # NoneValue
    /\ \A i, j \in 1..Len(requests) : requests[i] = requests[j] => i = j
    /\ Len(links) = Len(requests) - (IF failed THEN 1 ELSE 0)
    /\ \A i \in 1..Len(links) : links[i] = NoneValue => i = Len(links) /\ exhausted
    /\ exhausted => Len(links) > 0 /\ links[Len(links)] = NoneValue

C15_Runs ==
    IF fr.origin_done
    THEN /\ C15_Run(ORIGIN, fr.origin_requests, fr.origin_links, TRUE, FALSE)
         /\ C15_Run(UPSTREAM, fr.requests, fr.links, fr.phase = "done", fr.phase = "failed")
    ELSE C15_Run(ORIGIN, fr.requests, fr.links, FALSE, fr.phase = "failed")

\* C15: fetch_releases requests the first page and then the URL of each response's
\* "next" link, each once and in order, and stops after the first response without a
\* "next" link; a response with a failure status ends the script: that request is the
\* last, nothing more is yielded, and no step follows.
C15_Pagination ==
    [][/\ fr.phase = "fetch"
       /\ fr'.phase = "failed" =>
              /\ fr'.yielded = fr.yielded /\ fr'.received = fr.received
              /\ fr'.requests = Append(fr.requests, fr.url)
       /\ C15_Runs']_vars

\* the origin listing was read over two pages, and the second request for the
\* upstream listing was answered with a failure status
C15_Witness ==
    /\ fr.phase = "failed" /\ fr.origin_done
    /\ Len(fr.origin_requests) = 2 /\ fr.origin_links[2] = NoneValue
    /\ Len(fr.requests) = 2 /\ Len(fr.links) = 1

(***************************************************************************)
(* Properties of verify.                                                   *)
(***************************************************************************)
\* the version directories the glob of the running verify matches
C9_Matching == {d \in Glob(distT, <<>>, vf.version_glob) : IsDir(distT, d)}

\* C9: verify checks the archives of every version directory matching the glob, a
\* failed check or not; the flag is set exactly when a check made so far has failed,
\* so that no later passing directory clears it; and the exit code is 1 exactly when
\* an archive of a matching directory fails the check.
C9_VerifyAggregates ==
    vf.phase \in {"loop", "exit"} =>
        /\ vf.errors = (\E i \in 1..Len(vf.calls) : vf.calls[i].failed)
        /\ vf.phase = "exit" =>
               /\ {vf.calls[i].dir : i \in 1..Len(vf.calls)} = C9_Matching
               /\ \A i \in 1..Len(vf.calls) :
                      vf.calls[i].dists = Dists(distT, vf.calls[i].dir)
               /\ vf.code = IF \E d \in C9_Matching : \E w \in Dists(distT, d) : w \in vf.bad
                            THEN 1 ELSE 0

\* verify has ended with failure after two directories: the first failed the check,
\* the second passed it
C9_Witness ==
    /\ vf.phase = "exit"
    /\ Len(vf.calls) = 2
    /\ vf.calls[1].failed /\ ~vf.calls[2].failed
    /\ vf.code = 1

(***************************************************************************)
(* Properties of build and assemble over several tags.                     *)
(***************************************************************************)
\* the names build is to stage for the cached tag directory src: the LICENSE and, for
\* every file buf* whose name is a table key with or without 'buf-' and '.exe', the
\* key's platform tag behind 'py2.py3-none-'
C11_Staged(src) ==
    {"LICENSE"} \cup
    UNION {{"py2.py3-none-" \o C4_Table[k] : k \in C4_KeyOf(f[Len(f)])} :
               f \in {g \in Glob(cacheT, src, "buf*") : IsFile(cacheT, g)}}

\* the cached tag directories the last build's glob matches
C11_Matching == {d \in Glob(cacheT, <<>>, last.args.tag_glob) : IsDir(cacheT, d)}

\* C11: a build over cached tag directories that hold files without a platform mapping
\* ends without error, stages nothing for those files, and stages every file with a
\* known platform, with the cached content, in every matching tag (the build starts
\* from an empty staging tree, every matching tag has its LICENSE).
C11_UnknownSkipped ==
    (/\ last.cmd = "build" /\ last.args.clean
     /\ \A d \in C11_Matching : IsFile(cacheT, Append(d, "LICENSE")))
        => /\ last.err = "ok"
           /\ \A d \in C11_Matching :
                  /\ {p[Len(p)] : p \in Children(buildT, <<d[Len(d)]>>)} = C11_Staged(d)
                  /\ \A f \in Glob(cacheT, d, "buf*") :
                         \A k \in C4_KeyOf(f[Len(f)]) :
                             buildT[<<d[Len(d)], "py2.py3-none-" \o C4_Table[k]>>].data
                                 = cacheT[f].data

\* build has run over three tags, one of which holds buf-Linux-armv7: its two other
\* executables are staged, and so are the other tags
C11_Witness ==
    /\ last.cmd = "build" /\ last.args.clean /\ last.args.tag_glob = "*"
    /\ IsFile(cacheT, <<"v1.3.0", "buf-Linux-armv7">>)
    /\ IsFile(buildT, <<"v1.3.0", "py2.py3-none-manylinux_2_5_x86_64.manylinux1_x86_64">>)
    /\ IsFile(buildT, <<"v1.3.0", "py2.py3-none-macosx_11_0_arm64">>)
    /\ IsFile(buildT, <<"1.2.3", "py2.py3-none-win_amd64">>)
    /\ IsFile(buildT, <<"v1.2.3", "LICENSE">>)

\* C12: a run of assemble without --clean leaves every archive that is in dist when
\* the run starts as it is, whatever is staged and whatever the README says by then.
C12_ExistingArchiveKept ==
    [][(last'.cmd = "assemble" /\ ~last'.args.clean)
           => \A p \in DOMAIN distT :
                  IsFile(distT, p) => p \in DOMAIN distT' /\ distT'[p] = distT[p]]_vars

C12_Wheel ==
    <<"1.3.0", "buf_exe-1.3.0-py2.py3-none-manylinux_2_5_x86_64.manylinux1_x86_64.whl">>

\* assemble has run without error over a staging tree whose executable and LICENSE
\* for v1.3.0 are no longer those the archive in dist was made from, with another
\* README text, and the archive is the one dist started with
C12_Witness ==
    /\ last.cmd = "assemble" /\ ~last.args.clean /\ ~last.args.dev /\ last.err = "ok"
    /\ last.args.tag = "*"
    /\ IsFile(distT, C12_Wheel)
    /\ distT[C12_Wheel] = DistArmCut[C12_Wheel]
    /\ IsFile(buildT, <<"v1.3.0", "LICENSE">>)
    /\ distT[C12_Wheel].data[1].data
           # buildT[<<"v1.3.0", "py2.py3-none-manylinux_2_5_x86_64.manylinux1_x86_64">>].data
    /\ distT[C12_Wheel].data[2].data # buildT[<<"v1.3.0", "LICENSE">>].data
    /\ distT[C12_Wheel].data[3].data.payload # last.args.description

\* the development suffix of each commit time tried, from the calendar
C14_Suffix ==
    (1700000000 :> ".dev20231114221320") @@ (951782400 :> ".dev20000229000000")

\* a tag without its leading 'v'
C14_Stem(tag) == IF SubSeq(tag, 1, 1) = "v" THEN SubSeq(tag, 2, Len(tag)) ELSE tag

\* C14: every archive a run of assemble writes has, in development mode, the version
\* <tag without leading 'v'>.dev<YYYYMMDDHHMMSS of the latest commit time in UTC>, and
\* in non-development mode the tag without its leading 'v'; the version is the name of
\* the archive's directory and part of the archive's name.
C14_DevSuffix ==
    [][last'.cmd = "assemble"
           => \A a \in written' :
                  a \notin written =>
                      /\ a.version = C14_Stem(a.tag)
                             \o (IF last'.args.dev THEN C14_Suffix[last'.args.ct] ELSE "")
                      /\ a.path = <<a.version,
                                    "buf_exe-" \o a.version \o "-" \o a.platform \o ".whl">>]_vars

\* assemble --dev has written archives for tag v1.3.0 at the leap-day commit time
C14_Witness ==
    /\ last.cmd = "assemble" /\ last.args.dev /\ last.args.ct = 951782400
    /\ \E a \in written :
           /\ a.tag = "v1.3.0" /\ a.version = "1.3.0.dev20000229000000"
           /\ IsFile(distT, a.path)
    /\ \E a \in written : a.tag = "1.2.3" /\ a.version = "1.2.3.dev20000229000000"

\* the values of the header lines of block e that have the key k
C16_Values(e, k) ==
    {<<i, e.data.headers[i][2]>> : i \in {j \in 1..Len(e.data.headers) :
                                              e.data.headers[j][1] = k}}

\* block e has exactly one header line with the key k, and its value is v
C16_Only(e, k, v) == \E i \in 1..Len(e.data.headers) : C16_Values(e, k) = {<<i, v>>}

\* C16: the METADATA of every archive written has one Version line, with the
\* archive's version, and one Download-URL line, with the release page of the tag the
\* archive was built from; its WHEEL block has one Tag line, with the archive's
\* platform tag.
C16_OwnMetadata ==
    \A a \in written :
        /\ C16_Only(a.entries[3], "Version", a.version)
        /\ C16_Only(a.entries[3], "Download-URL",
                    "https://github.com/bufbuild/buf/releases/tag/" \o a.tag)
        /\ C16_Only(a.entries[4], "Tag", a.platform)

\* every archive written so far was written by the last run, an assemble over tags of
\* two versions, one of them with two platforms
C16_Witness ==
    /\ last.cmd = "assemble" /\ last.work = Cardinality(written)
    /\ \E a, b, c \in written :
           /\ a.tag # b.tag /\ a.version # b.version
           /\ c.tag = a.tag /\ c.platform # a.platform
           /\ a.platform = b.platform

\* every staging directory holds a LICENSE and, for every file buf* of its cached tag
\* directory whose name is a table key with or without 'buf-' and '.exe', the file
\* renamed to the key's platform tag behind 'py2.py3-none-'
C17_Complete ==
    \A d \in Children(buildT, <<>>) :
        IsDir(buildT, d) =>
            /\ IsFile(buildT, Append(d, "LICENSE"))
            /\ \A f \in Glob(cacheT, d, "buf*") :
                   IsFile(cacheT, f) =>
                       \A k \in C4_KeyOf(f[Len(f)]) :
                           IsFile(buildT, Append(d, "py2.py3-none-" \o C4_Table[k]))

\* C17: a run of download or build without --clean, failed or not, that starts with
\* every staging directory complete ends with every staging directory complete.
C17_StagingComplete ==
    [][(/\ last'.cmd \in {"download", "build"} /\ ~last'.args.clean
        /\ C17_Complete)
           => C17_Complete']_vars

\* the staged executables of the tags the glob of assemble matches: <<tag directory,
\* staged file>>
C18_Pairs(glob) ==
    {<<d, g>> \in Children(buildT, <<>>) \X DOMAIN buildT :
        /\ GlobMatch(glob, d[Len(d)]) /\ IsDir(buildT, d)
        /\ g \in Glob(buildT, d, "py2.py3-none-*") /\ IsFile(buildT, g)}

C18_Archives(t) == {p \in DOMAIN t : IsFile(t, p)}

\* C18: an assemble run that starts with no archive in dist and ends without error
\* leaves as many archives as the matching tags have staged executables, and for each
\* staged executable an archive written from it for its tag and platform tag.
C18_OwnArchive ==
    [][(/\ last'.cmd = "assemble" /\ last'.err = "ok"
        /\ (last'.args.clean \/ C18_Archives(distT) = {}))
           => /\ Cardinality(C18_Archives(distT')) = Cardinality(C18_Pairs(last'.args.tag))
              /\ \A pair \in C18_Pairs(last'.args.tag) :
                     \E a \in written' :
                         /\ a.tag = pair[1][1] /\ a.platform = pair[2][2]
                         /\ a.entries[1].data = buildT[pair[2]].data
                         /\ IsFile(distT', a.path) /\ distT'[a.path].data = a.entries]_vars

(***************************************************************************)
(* Properties of publish.                                                  *)
(***************************************************************************)
\* the working tree of the running publish has uncommitted changes
C13_Uncommitted == pb.porcelain # ""

\* C13: a publish that finds uncommitted changes and was not given --force has failed
\* without an upload; whenever an upload was made, the working tree was clean or
\* --force was given.
C13_NoUploadUncommitted ==
    pb.phase \in {"loop", "failed", "done"} =>
        /\ (C13_Uncommitted /\ ~pb.force) => pb.phase = "failed" /\ pb.uploads = <<>>
        /\ pb.uploads # <<>> => (~C13_Uncommitted \/ pb.force)
        /\ pb.phase = "failed" => (C13_Uncommitted /\ ~pb.force)

\* publish has refused over a dist tree that holds an archive its glob matches
C13_Witness ==
    /\ pb.phase = "failed" /\ ~pb.force /\ C13_Uncommitted
    /\ \E d \in Glob(distT, <<>>, pb.version) : Dists(distT, d) # {}

=============================================================================
